---- MODULE Spec2Model ----
(***************************************************************************)
(* Git workflow agent (apps/agents/src/react-agent/graph.ts): the compiled *)
(* LangGraph state graph callModel -> tools -> processResults -> callModel *)
(* and its Stage Controller (determineNextWorkflowStep,                    *)
(* updateRepositoryInfo, processToolResults).                              *)
(*                                                                         *)
(* JavaScript values are records [t, s]: t is the typeof tag and s the     *)
(* text of a string.  Optional arrays are records [defined, items].        *)
(***************************************************************************)
EXTENDS Integers, Sequences, FiniteSets, TLC

VARIABLES
  pc,            \* node of the graph that runs next, "done" (__end__) or "error"
  messages,      \* MessagesAnnotation channel: the conversation history
  workflowStep,  \* GitWorkflowAnnotation.workflowStep channel
  repository,    \* GitWorkflowAnnotation.repository channel
  last,          \* the node that ran last and the channels as it found them
  turns,         \* number of model responses appended by this run
  inputLen       \* length of the history the run was invoked with

vars == <<pc, messages, workflowStep, repository, last, turns, inputLen>>

\* Number of model responses one run of the graph may produce in the model.
MaxTurns == 2

-----------------------------------------------------------------------------
\* JavaScript values

Undef == [t |-> "undefined", s |-> ""]
Str(x) == [t |-> "string", s |-> x]
Num == [t |-> "number", s |-> ""]

\* JavaScript truthiness of a value (the empty string and undefined are falsy).
Truthy(v) == \/ v.t = "string" /\ v.s # ""
             \/ v.t = "number"
             \/ v.t = "boolean" /\ v.s = "true"

True == [t |-> "boolean", s |-> "true"]
False == [t |-> "boolean", s |-> "false"]

NoArr == [defined |-> FALSE, items |-> <<>>]
Arr(xs) == [defined |-> TRUE, items |-> xs]

\* Array.prototype.includes
Includes(xs, v) == \E i \in 1..Len(xs) : xs[i] = v

-----------------------------------------------------------------------------
\* String helpers used by the directory derivation

\* Positions at which pat occurs in str.
Occurrences(str, pat) ==
  {i \in 1..(Len(str) - Len(pat) + 1) : SubSeq(str, i, i + Len(pat) - 1) = pat}

\* str.split("/").pop(): the text after the last "/" (the whole text if none).
SplitPop(str) ==
  LET occ == Occurrences(str, "/")
      lastSlash == IF occ = {} THEN 0 ELSE CHOOSE i \in occ : \A j \in occ : j <= i
  IN SubSeq(str, lastSlash + 1, Len(str))

\* str.replace(pat, ""): removes the first occurrence of pat only.
ReplaceFirst(str, pat) ==
  LET occ == Occurrences(str, pat)
      first == IF occ = {} THEN 0 ELSE CHOOSE i \in occ : \A j \in occ : i <= j
  IN IF first = 0 THEN str
     ELSE SubSeq(str, 1, first - 1) \o SubSeq(str, first + Len(pat), Len(str))

\* `./${args.repoUrl.split("/").pop()?.replace(".git", "") || "repo"}`
DeriveDirectory(repoUrl) ==
  LET stripped == ReplaceFirst(SplitPop(repoUrl), ".git")
      repoName == IF stripped = "" THEN "repo" ELSE stripped
  IN "./" \o repoName

-----------------------------------------------------------------------------
\* Tool calls and messages

Stages == <<"initialize", "explore", "modify", "verify", "commit", "push">>
StageSet == {Stages[i] : i \in 1..Len(Stages)}

ToolNames == {"git_clone", "git_checkout", "git_status", "git_commit",
              "git_push", "read_file", "write_file", "list_directory"}

\* The argument fields the Stage Controller reads.
NoFields == [repoUrl |-> Undef, directory |-> Undef, branch |-> Undef,
             target |-> Undef, filePath |-> Undef, addAll |-> Undef]

\* toolCall.args: kind "object" is an object, "json" a string holding the JSON
\* text of the object o, "jsonnull" the string "null", "badjson" a string that
\* is not JSON, "null" a null or absent payload.
ObjArgs(o) == [kind |-> "object", o |-> o]

ToolCall(name, args) == [name |-> name, args |-> args]

Clone(url, dir, br) ==
  ToolCall("git_clone",
           ObjArgs([NoFields EXCEPT !.repoUrl = url, !.directory = dir, !.branch = br]))
Checkout(target) ==
  ToolCall("git_checkout",
           ObjArgs([NoFields EXCEPT !.directory = Str("./z"), !.target = target]))
WriteFile(path) ==
  ToolCall("write_file", ObjArgs([NoFields EXCEPT !.filePath = path]))
ReadFile(path) ==
  ToolCall("read_file", ObjArgs([NoFields EXCEPT !.filePath = path]))
DirTool(name) ==
  ToolCall(name, ObjArgs([NoFields EXCEPT !.directory = Str("./z")]))
PushBranch(br) ==
  ToolCall("git_push",
           ObjArgs([NoFields EXCEPT !.directory = Str("./z"), !.branch = br]))

\* Payloads that are not objects: a string that is not JSON (o is what a
\* tolerant reader would make of its text), and a null or absent payload.
BadJsonArgs(o) == [kind |-> "badjson", o |-> o]
NullArgs == [kind |-> "null", o |-> NoFields]

\* toolCall.args is a string that JSON.parse rejects, or null.
Unparsable(toolCall) == toolCall.args.kind \in {"badjson", "null"}

HumanMessage == [type |-> "human", tool_calls |-> NoArr, name |-> "", content |-> "text"]
AIMessage(calls) == [type |-> "ai", tool_calls |-> Arr(calls), name |-> "", content |-> "text"]
ToolMessage(name, content) ==
  [type |-> "tool", tool_calls |-> NoArr, name |-> name, content |-> content]

\* "tool_calls" in msg && Array.isArray(msg.tool_calls)
isAIMessage(msg) == msg.tool_calls.defined

\* JSON.parse of a string payload: whether it throws, and the value it returns.
JSONParse(args) ==
  CASE args.kind = "json"     -> [throws |-> FALSE, isNull |-> FALSE, o |-> args.o]
    [] args.kind = "jsonnull" -> [throws |-> FALSE, isNull |-> TRUE, o |-> NoFields]
    [] OTHER                  -> [throws |-> TRUE, isNull |-> FALSE, o |-> NoFields]

\* A tolerant parse that salvages the fields of a string that is not JSON.
parseToolCallArgsLenient(args) ==
  IF args.kind \in {"json", "badjson"} THEN [isNull |-> FALSE, o |-> args.o]
  ELSE IF args.kind = "jsonnull" THEN [isNull |-> TRUE, o |-> NoFields]
  ELSE IF args.kind = "null" THEN [isNull |-> FALSE, o |-> NoFields]
  ELSE [isNull |-> FALSE, o |-> args.o]

\* parseToolCallArgs: a string is parsed, {} when the parse throws; anything
\* else is returned as it is, {} when falsy.
parseToolCallArgs(args) ==
  IF args.kind \in {"json", "jsonnull", "badjson"}
  THEN LET p == JSONParse(args)
       IN IF p.throws THEN [isNull |-> FALSE, o |-> NoFields]
          ELSE [isNull |-> p.isNull, o |-> p.o]
  ELSE IF args.kind = "null" THEN [isNull |-> FALSE, o |-> NoFields]
  ELSE [isNull |-> FALSE, o |-> args.o]

-----------------------------------------------------------------------------
\* Workflow state

EmptyRepository == [url |-> Undef, directory |-> Undef, branch |-> Undef,
                    filesModified |-> NoArr]

State(msgs, step, repo) ==
  [messages |-> msgs, workflowStep |-> step, repository |-> repo]

\* An update of one channel: has is whether the key is present.
NoStepUpdate == [has |-> FALSE, workflowStep |-> ""]
StepUpdate(step) == [has |-> TRUE, workflowStep |-> step]
NoRepoUpdate == [has |-> FALSE, repository |-> EmptyRepository]
RepoUpdate(repo) == [has |-> TRUE, repository |-> repo]

-----------------------------------------------------------------------------
\* Stage Controller: stage transition

\* new Set(toolCalls.map((tool) => tool.name))
ToolNamesOf(toolCalls) == {toolCalls[i].name : i \in 1..Len(toolCalls)}

\* Variants of the switch with one slip each.

\* The push case starts the workflow over when a clone is requested.
StepSwitchRestart(step, toolCalls) ==
  LET toolNames == ToolNamesOf(toolCalls)
  IN CASE step = "initialize" ->
            IF "git_clone" \in toolNames THEN StepUpdate("explore") ELSE NoStepUpdate
       [] step = "explore" ->
            IF "write_file" \in toolNames THEN StepUpdate("modify") ELSE NoStepUpdate
       [] step = "modify" ->
            IF "git_status" \in toolNames \/ "read_file" \in toolNames
            THEN StepUpdate("verify") ELSE NoStepUpdate
       [] step = "verify" ->
            IF "git_commit" \in toolNames THEN StepUpdate("commit") ELSE NoStepUpdate
       [] step = "commit" ->
            IF "git_push" \in toolNames THEN StepUpdate("push") ELSE NoStepUpdate
       [] step = "push" ->
            IF "git_clone" \in toolNames THEN StepUpdate("initialize") ELSE NoStepUpdate
       [] OTHER -> NoStepUpdate

\* The modify case forgets read_file.
StepSwitchStatusOnly(step, toolCalls) ==
  LET toolNames == ToolNamesOf(toolCalls)
  IN CASE step = "initialize" ->
            IF "git_clone" \in toolNames THEN StepUpdate("explore") ELSE NoStepUpdate
       [] step = "explore" ->
            IF "write_file" \in toolNames THEN StepUpdate("modify") ELSE NoStepUpdate
       [] step = "modify" ->
            IF "git_status" \in toolNames THEN StepUpdate("verify") ELSE NoStepUpdate
       [] step = "verify" ->
            IF "git_commit" \in toolNames THEN StepUpdate("commit") ELSE NoStepUpdate
       [] step = "commit" ->
            IF "git_push" \in toolNames THEN StepUpdate("push") ELSE NoStepUpdate
       [] OTHER -> NoStepUpdate

\* The cases lack their break: a case whose test fails falls into the next one.
StepSwitchFallThrough(step, toolCalls) ==
  LET toolNames == ToolNamesOf(toolCalls)
      from(s) == \E i \in 1..s : Stages[i] = step
  IN IF from(1) /\ "git_clone" \in toolNames THEN StepUpdate("explore")
     ELSE IF from(2) /\ "write_file" \in toolNames THEN StepUpdate("modify")
     ELSE IF from(3) /\ ("git_status" \in toolNames \/ "read_file" \in toolNames)
          THEN StepUpdate("verify")
     ELSE IF from(4) /\ "git_commit" \in toolNames THEN StepUpdate("commit")
     ELSE IF from(5) /\ "git_push" \in toolNames THEN StepUpdate("push")
     ELSE NoStepUpdate

\* The explore case advances on a read without looking for a write.
StepSwitchReadAdvances(step, toolCalls) ==
  LET toolNames == ToolNamesOf(toolCalls)
  IN CASE step = "initialize" ->
            IF "git_clone" \in toolNames THEN StepUpdate("explore") ELSE NoStepUpdate
       [] step = "explore" ->
            IF \/ "read_file" \in toolNames
               \/ "list_directory" \in toolNames
               \/ "write_file" \in toolNames
            THEN StepUpdate("modify") ELSE NoStepUpdate
       [] step = "modify" ->
            IF "git_status" \in toolNames \/ "read_file" \in toolNames
            THEN StepUpdate("verify") ELSE NoStepUpdate
       [] step = "verify" ->
            IF "git_commit" \in toolNames THEN StepUpdate("commit") ELSE NoStepUpdate
       [] step = "commit" ->
            IF "git_push" \in toolNames THEN StepUpdate("push") ELSE NoStepUpdate
       [] OTHER -> NoStepUpdate

\* The switch over state.workflowStep; toolCalls is not empty.
StepSwitch(step, toolCalls) ==
  LET toolNames == ToolNamesOf(toolCalls)
      writeOps == SelectSeq(toolCalls, LAMBDA tool : tool.name = "write_file")
  IN CASE step = "initialize" ->
            IF "git_clone" \in toolNames THEN StepUpdate("explore") ELSE NoStepUpdate
       [] step = "explore" ->
            IF /\ ("read_file" \in toolNames \/ "list_directory" \in toolNames)
               /\ Len(writeOps) > 0
            THEN StepUpdate("modify")
            ELSE IF "write_file" \in toolNames THEN StepUpdate("modify")
            ELSE NoStepUpdate
       [] step = "modify" ->
            IF "git_status" \in toolNames \/ "read_file" \in toolNames
            THEN StepUpdate("verify") ELSE NoStepUpdate
       [] step = "verify" ->
            IF "git_commit" \in toolNames THEN StepUpdate("commit") ELSE NoStepUpdate
       [] step = "commit" ->
            IF "git_push" \in toolNames THEN StepUpdate("push") ELSE NoStepUpdate
       [] OTHER -> NoStepUpdate

\* Looks only at the tool calls whose arguments parse.
determineNextWorkflowStepParsedOnly(state) ==
  IF Len(state.messages) = 0 THEN NoStepUpdate
  ELSE LET lastMessage == state.messages[Len(state.messages)]
       IN IF ~isAIMessage(lastMessage) THEN NoStepUpdate
          ELSE LET toolCalls == SelectSeq(lastMessage.tool_calls.items,
                                          LAMBDA c : ~Unparsable(c))
               IN IF Len(toolCalls) = 0 THEN NoStepUpdate
                  ELSE StepSwitch(state.workflowStep, toolCalls)

determineNextWorkflowStep(state) ==
  IF Len(state.messages) = 0 THEN NoStepUpdate
  ELSE LET lastMessage == state.messages[Len(state.messages)]
       IN IF ~isAIMessage(lastMessage) THEN NoStepUpdate
          ELSE LET toolCalls == lastMessage.tool_calls.items
               IN IF Len(toolCalls) = 0 THEN NoStepUpdate
                  ELSE StepSwitch(state.workflowStep, toolCalls)

-----------------------------------------------------------------------------
\* Stage Controller: repository metadata fold

\* case "git_clone": an exception of the derivation leaves url assigned and
\* updated as it was.
CloneCase(acc, args) ==
  IF ~Truthy(args.repoUrl) THEN acc
  ELSE LET r1 == [acc.repo EXCEPT !.url = args.repoUrl]
       IN IF ~Truthy(args.directory) /\ args.repoUrl.t # "string"
          THEN [repo |-> r1, updated |-> acc.updated]
          ELSE LET r2 == [r1 EXCEPT !.directory =
                            IF Truthy(args.directory) THEN args.directory
                            ELSE Str(DeriveDirectory(args.repoUrl.s))]
                   r3 == IF Truthy(args.branch)
                         THEN [r2 EXCEPT !.branch = args.branch] ELSE r2
               IN [repo |-> r3, updated |-> TRUE]

\* case "git_checkout"
CheckoutCase(acc, args) ==
  IF Truthy(args.target)
  THEN [repo |-> [acc.repo EXCEPT !.branch = args.target], updated |-> TRUE]
  ELSE acc

\* case "write_file" without the includes test.
WriteFileCaseAlwaysPush(acc, args) ==
  IF Truthy(args.filePath)
  THEN LET files == IF acc.repo.filesModified.defined
                    THEN acc.repo.filesModified.items ELSE <<>>
       IN [repo |-> [acc.repo EXCEPT !.filesModified = Arr(Append(files, args.filePath))],
           updated |-> TRUE]
  ELSE acc

\* case "write_file" assigning a list of the one path instead of pushing.
WriteFileCaseOverwrites(acc, args) ==
  IF Truthy(args.filePath)
  THEN [repo |-> [acc.repo EXCEPT !.filesModified = Arr(<<args.filePath>>)],
        updated |-> TRUE]
  ELSE acc

\* case "write_file"
WriteFileCase(acc, args) ==
  IF Truthy(args.filePath)
  THEN LET files == IF acc.repo.filesModified.defined
                    THEN acc.repo.filesModified.items ELSE <<>>
           pushed == IF Includes(files, args.filePath) THEN files
                     ELSE Append(files, args.filePath)
       IN [repo |-> [acc.repo EXCEPT !.filesModified = Arr(pushed)],
           updated |-> TRUE]
  ELSE acc

\* The write_file case also catches read_file.
RepoStepReadCounts(acc, toolCall) ==
  LET parsed == parseToolCallArgs(toolCall.args)
  IN IF toolCall.name \notin {"git_clone", "git_checkout", "write_file", "read_file"}
     THEN acc
     ELSE IF parsed.isNull THEN acc
     ELSE CASE toolCall.name = "git_clone"    -> CloneCase(acc, parsed.o)
            [] toolCall.name = "git_checkout" -> CheckoutCase(acc, parsed.o)
            [] OTHER                          -> WriteFileCase(acc, parsed.o)

\* The body of the for loop: one tool call inside its try/catch.
RepoStep(acc, toolCall) ==
  LET parsed == parseToolCallArgs(toolCall.args)
  IN IF toolCall.name \notin {"git_clone", "git_checkout", "write_file"} THEN acc
     ELSE IF parsed.isNull THEN acc
     ELSE CASE toolCall.name = "git_clone"    -> CloneCase(acc, parsed.o)
            [] toolCall.name = "git_checkout" -> CheckoutCase(acc, parsed.o)
            [] OTHER                          -> WriteFileCase(acc, parsed.o)

\* The loop runs over the tool calls from the last to the first.
RECURSIVE RepoFoldBackwards(_, _, _)
RepoFoldBackwards(toolCalls, i, acc) ==
  IF i > Len(toolCalls) THEN acc
  ELSE RepoFoldBackwards(toolCalls, i + 1,
                         RepoStep(acc, toolCalls[Len(toolCalls) + 1 - i]))

\* for (const toolCall of toolCalls): the calls from i on applied to acc.
RECURSIVE RepoFold(_, _, _)
RepoFold(toolCalls, i, acc) ==
  IF i > Len(toolCalls) THEN acc
  ELSE RepoFold(toolCalls, i + 1, RepoStep(acc, toolCalls[i]))

updateRepositoryInfo(state) ==
  IF Len(state.messages) = 0 THEN NoRepoUpdate
  ELSE LET lastMessage == state.messages[Len(state.messages)]
       IN IF ~isAIMessage(lastMessage) THEN NoRepoUpdate
          ELSE LET toolCalls == lastMessage.tool_calls.items
                   res == RepoFold(toolCalls, 1,
                                   [repo |-> state.repository, updated |-> FALSE])
               IN IF res.updated THEN RepoUpdate(res.repo) ELSE NoRepoUpdate

\* The repository of the state object handed to updateRepositoryInfo, as the
\* call leaves it: { ...state.repository } copies the fields and shares the
\* filesModified array, which the write_file case pushes into.
updateRepositoryInfoInput(state) ==
  IF Len(state.messages) = 0 THEN state.repository
  ELSE LET lastMessage == state.messages[Len(state.messages)]
       IN IF ~isAIMessage(lastMessage) THEN state.repository
          ELSE LET toolCalls == lastMessage.tool_calls.items
                   res == RepoFold(toolCalls, 1,
                                   [repo |-> state.repository, updated |-> FALSE])
               IN IF state.repository.filesModified.defined
                  THEN [state.repository EXCEPT
                          !.filesModified = res.repo.filesModified]
                  ELSE state.repository

-----------------------------------------------------------------------------
\* The variant gitOnlyGraph: the same controller written without the helpers
\* isAIMessage and parseToolCallArgs.

\* (lastMessage as AIMessage)?.tool_calls || [], lastMessage undefined for an
\* empty history.
gitOnlyToolCalls(state) ==
  IF Len(state.messages) = 0 THEN <<>>
  ELSE IF ~state.messages[Len(state.messages)].tool_calls.defined THEN <<>>
  ELSE state.messages[Len(state.messages)].tool_calls.items

\* toolNames.includes(name)
gitOnlyIncludes(toolCalls, name) ==
  \E i \in 1..Len(toolCalls) : toolCalls[i].name = name

\* The explore case without its second test: a write advances only next to a read.
gitOnlyStepSwitchNeedsRead(step, toolCalls) ==
  IF step = "initialize"
  THEN IF gitOnlyIncludes(toolCalls, "git_clone") THEN StepUpdate("explore")
       ELSE NoStepUpdate
  ELSE IF step = "explore"
  THEN IF /\ \/ gitOnlyIncludes(toolCalls, "read_file")
             \/ gitOnlyIncludes(toolCalls, "list_directory")
          /\ Len(SelectSeq(toolCalls, LAMBDA tool : tool.name = "write_file")) > 0
       THEN StepUpdate("modify")
       ELSE NoStepUpdate
  ELSE IF step = "modify"
  THEN IF \/ gitOnlyIncludes(toolCalls, "git_status")
          \/ gitOnlyIncludes(toolCalls, "read_file")
       THEN StepUpdate("verify") ELSE NoStepUpdate
  ELSE IF step = "verify"
  THEN IF gitOnlyIncludes(toolCalls, "git_commit") THEN StepUpdate("commit")
       ELSE NoStepUpdate
  ELSE IF step = "commit"
  THEN IF gitOnlyIncludes(toolCalls, "git_push") THEN StepUpdate("push")
       ELSE NoStepUpdate
  ELSE NoStepUpdate

\* The switch over state.workflowStep of the variant.
gitOnlyStepSwitch(step, toolCalls) ==
  IF step = "initialize"
  THEN IF gitOnlyIncludes(toolCalls, "git_clone") THEN StepUpdate("explore")
       ELSE NoStepUpdate
  ELSE IF step = "explore"
  THEN IF /\ \/ gitOnlyIncludes(toolCalls, "read_file")
             \/ gitOnlyIncludes(toolCalls, "list_directory")
          /\ Len(SelectSeq(toolCalls, LAMBDA tool : tool.name = "write_file")) > 0
       THEN StepUpdate("modify")
       ELSE IF gitOnlyIncludes(toolCalls, "write_file") THEN StepUpdate("modify")
       ELSE NoStepUpdate
  ELSE IF step = "modify"
  THEN IF \/ gitOnlyIncludes(toolCalls, "git_status")
          \/ gitOnlyIncludes(toolCalls, "read_file")
       THEN StepUpdate("verify") ELSE NoStepUpdate
  ELSE IF step = "verify"
  THEN IF gitOnlyIncludes(toolCalls, "git_commit") THEN StepUpdate("commit")
       ELSE NoStepUpdate
  ELSE IF step = "commit"
  THEN IF gitOnlyIncludes(toolCalls, "git_push") THEN StepUpdate("push")
       ELSE NoStepUpdate
  ELSE NoStepUpdate

gitOnlyDetermineNextWorkflowStep(state) ==
  LET toolCalls == gitOnlyToolCalls(state)
  IN IF Len(toolCalls) = 0 THEN NoStepUpdate
     ELSE gitOnlyStepSwitch(state.workflowStep, toolCalls)

\* typeof toolCall.args === "string" ? JSON.parse(toolCall.args) : toolCall.args
\* (inside the try: throws is an exception of the parse, isNull a null value).
gitOnlyArgs(toolCall) ==
  IF toolCall.args.kind \in {"json", "jsonnull", "badjson"}
  THEN JSONParse(toolCall.args)
  ELSE IF toolCall.args.kind = "null"
  THEN [throws |-> FALSE, isNull |-> TRUE, o |-> NoFields]
  ELSE [throws |-> FALSE, isNull |-> FALSE, o |-> toolCall.args.o]

\* The body of the variant's loop: the parse and the switch are in one try;
\* reading a field of null throws, and in the git_clone case so does split on
\* a repoUrl that is not a string, after url was assigned.
gitOnlyRepoStep(acc, toolCall) ==
  LET parsed == gitOnlyArgs(toolCall)
      args == parsed.o
      files == IF acc.repo.filesModified.defined
               THEN acc.repo.filesModified.items ELSE <<>>
  IN IF parsed.throws THEN acc
     ELSE IF toolCall.name = "git_clone"
     THEN IF parsed.isNull THEN acc
          ELSE IF ~Truthy(args.repoUrl) THEN acc
          ELSE IF Truthy(args.directory)
          THEN [repo |-> [acc.repo EXCEPT
                            !.url = args.repoUrl,
                            !.directory = args.directory,
                            !.branch = IF Truthy(args.branch) THEN args.branch ELSE @],
                updated |-> TRUE]
          ELSE IF args.repoUrl.t # "string"
          THEN [repo |-> [acc.repo EXCEPT !.url = args.repoUrl],
                updated |-> acc.updated]
          ELSE [repo |-> [acc.repo EXCEPT
                            !.url = args.repoUrl,
                            !.directory = Str(DeriveDirectory(args.repoUrl.s)),
                            !.branch = IF Truthy(args.branch) THEN args.branch ELSE @],
                updated |-> TRUE]
     ELSE IF toolCall.name = "git_checkout"
     THEN IF parsed.isNull THEN acc
          ELSE IF Truthy(args.target)
          THEN [repo |-> [acc.repo EXCEPT !.branch = args.target], updated |-> TRUE]
          ELSE acc
     ELSE IF toolCall.name = "write_file"
     THEN IF parsed.isNull THEN acc
          ELSE IF Truthy(args.filePath)
          THEN [repo |-> [acc.repo EXCEPT !.filesModified =
                            Arr(IF Includes(files, args.filePath) THEN files
                                ELSE Append(files, args.filePath))],
                updated |-> TRUE]
          ELSE acc
     ELSE acc

RECURSIVE gitOnlyRepoFold(_, _, _)
gitOnlyRepoFold(toolCalls, i, acc) ==
  IF i > Len(toolCalls) THEN acc
  ELSE gitOnlyRepoFold(toolCalls, i + 1, gitOnlyRepoStep(acc, toolCalls[i]))

gitOnlyUpdateRepositoryInfo(state) ==
  LET toolCalls == gitOnlyToolCalls(state)
  IN IF Len(toolCalls) = 0 THEN NoRepoUpdate
     ELSE LET res == gitOnlyRepoFold(toolCalls, 1,
                                     [repo |-> state.repository, updated |-> FALSE])
          IN IF res.updated THEN RepoUpdate(res.repo) ELSE NoRepoUpdate

\* (lastMessage as AIMessage)?.tool_calls?.length || 0 > 0
gitOnlyRouteModelOutput(state) ==
  IF Len(gitOnlyToolCalls(state)) # 0 \/ 0 > 0 THEN "tools" ELSE "__end__"

-----------------------------------------------------------------------------
\* Tools (utils.ts)

\* gitClone: the directory the tool creates and clones into.
gitCloneDirectory(args) ==
  IF Truthy(args.directory) THEN args.directory
  ELSE LET stripped == ReplaceFirst(SplitPop(args.repoUrl.s), ".git")
           repoName == IF stripped = "" THEN "repo" ELSE stripped
       IN Str("./" \o repoName)

\* The tools that await a shell command; the file tools use synchronous calls.
AsyncTools == {"git_clone", "git_checkout", "git_status", "git_commit", "git_push"}

\* The shell commands and filesystem calls a tool issues when none fails;
\* dirExists is what fs.existsSync answers.
ToolSteps(toolCall, dirExists) ==
  LET args == toolCall.args.o
  IN CASE toolCall.name = "git_clone" ->
            (IF dirExists THEN <<>> ELSE <<"mkdirSync">>)
            \o <<"git clone">>
            \o (IF Truthy(args.branch) THEN <<"git checkout">> ELSE <<>>)
       [] toolCall.name = "git_checkout" -> <<"git checkout">>
       [] toolCall.name = "git_status" -> <<"git status">>
       [] toolCall.name = "git_commit" ->
            (IF args.addAll = Undef \/ Truthy(args.addAll) THEN <<"git add">> ELSE <<>>)
            \o <<"git commit">>
       [] toolCall.name = "git_push" ->
            (IF Truthy(args.branch) THEN <<>> ELSE <<"git rev-parse">>)
            \o <<"git push">>
       [] toolCall.name = "read_file" -> <<"readFileSync">>
       [] toolCall.name = "write_file" ->
            (IF dirExists THEN <<>> ELSE <<"mkdirSync">>) \o <<"writeFileSync">>
       [] toolCall.name = "list_directory" -> <<"readdirSync">>
       [] OTHER -> <<>>

\* A rev-parse that fails in git_push escapes the tool.
RunToolPushLeaks(toolCall, dirExists, failAt) ==
  LET steps == ToolSteps(toolCall, dirExists)
  IN [name |-> toolCall.name,
      ran |-> IF failAt = 0 THEN steps ELSE SubSeq(steps, 1, failAt),
      failed |-> failAt # 0,
      failedAt |-> failAt,
      content |-> IF failAt = 0 THEN "ok"
                  ELSE IF steps[failAt] = "git rev-parse" THEN "exception"
                  ELSE "error"]

\* Each step has a catch of its own: the steps after the failing one still run.
RunToolKeepsGoing(toolCall, dirExists, failAt) ==
  LET steps == ToolSteps(toolCall, dirExists)
  IN [name |-> toolCall.name,
      ran |-> steps,
      failed |-> failAt # 0,
      failedAt |-> failAt,
      content |-> IF failAt = 0 THEN "ok" ELSE "error"]

\* One run of a tool: the steps are issued in order inside the try; step
\* failAt throws (0: none does), the catch turns it into the error text.
RunTool(toolCall, dirExists, failAt) ==
  LET steps == ToolSteps(toolCall, dirExists)
  IN [name |-> toolCall.name,
      ran |-> IF failAt = 0 THEN steps ELSE SubSeq(steps, 1, failAt),
      failed |-> failAt # 0,
      failedAt |-> failAt,
      content |-> IF failAt = 0 THEN "ok" ELSE "error"]

\* The runs a tool call can take.
ToolRuns(toolCall) ==
  UNION {{RunTool(toolCall, d, k) : k \in 0..Len(ToolSteps(toolCall, d))}
         : d \in BOOLEAN}

\* ToolNode starts every call of the message (Promise.all over tool_calls):
\* a file tool runs to its end when it starts, a git tool ends when its
\* shell command has answered, in any order.
RECURSIVE StartPhase(_, _)
StartPhase(toolCalls, i) ==
  IF i > Len(toolCalls) THEN <<>>
  ELSE <<[event |-> "start", call |-> i]>>
       \o (IF toolCalls[i].name \in AsyncTools THEN <<>>
           ELSE <<[event |-> "end", call |-> i]>>)
       \o StartPhase(toolCalls, i + 1)

Schedules(toolCalls) ==
  LET async == {i \in 1..Len(toolCalls) : toolCalls[i].name \in AsyncTools}
      orders == {p \in [1..Cardinality(async) -> async] :
                   \A k, l \in 1..Cardinality(async) : p[k] = p[l] => k = l}
  IN {StartPhase(toolCalls, 1)
        \o [k \in 1..Cardinality(async) |-> [event |-> "end", call |-> p[k]]]
      : p \in orders}

NoExecution == [runs |-> <<>>, schedule |-> <<>>]

-----------------------------------------------------------------------------
\* Graph nodes, edges and channel reducers

\* Routes to tools whenever the last message has a tool-call list, empty or not.
routeModelOutputAnyList(state) ==
  IF Len(state.messages) = 0 THEN "__end__"
  ELSE LET lastMessage == state.messages[Len(state.messages)]
       IN IF isAIMessage(lastMessage) THEN "tools" ELSE "__end__"

\* Routes to tools only for more than one tool call.
routeModelOutputOffByOne(state) ==
  IF Len(state.messages) = 0 THEN "__end__"
  ELSE LET lastMessage == state.messages[Len(state.messages)]
       IN IF isAIMessage(lastMessage) /\ Len(lastMessage.tool_calls.items) > 1
          THEN "tools" ELSE "__end__"

routeModelOutput(state) ==
  IF Len(state.messages) = 0 THEN "__end__"
  ELSE LET lastMessage == state.messages[Len(state.messages)]
       IN IF isAIMessage(lastMessage) /\ Len(lastMessage.tool_calls.items) > 0
          THEN "tools" ELSE "__end__"

processToolResults(state) ==
  LET workflowUpdate == determineNextWorkflowStep(state)
      repoUpdate == updateRepositoryInfo(state)
  IN [workflowStep |-> workflowUpdate, repository |-> repoUpdate]

\* workflowStep channel: value: (_existing, update) => update
StepReducer(existing, update) ==
  IF update.has THEN update.workflowStep ELSE existing

\* repository channel: value: (_existing, update) => ({ ..._existing, ...update })
RepositoryReducer(existing, update) ==
  IF ~update.has THEN existing
  ELSE [f \in DOMAIN existing |->
          IF f = "filesModified"
          THEN IF update.repository[f].defined THEN update.repository[f] ELSE existing[f]
          ELSE IF update.repository[f].t # "undefined" THEN update.repository[f]
          ELSE existing[f]]

\* The edge out of tools goes straight back to the model.
EdgeSkipsProcessResults(node) ==
  CASE node = "__start__" -> "callModel"
    [] node = "tools" -> "callModel"
    [] node = "processResults" -> "callModel"

\* addEdge: the node that runs after node.
Edge(node) ==
  CASE node = "__start__" -> "callModel"
    [] node = "tools" -> "processResults"
    [] node = "processResults" -> "callModel"

\* compile: the nodes the run pauses before and after for the user.
interruptBefore == {}
interruptAfter == {}

\* The position of the run after node from has run and the edges name node to:
\* the run waits for the user when from or to is an interrupt point.
Goto(from, to) ==
  IF from \in interruptAfter \/ to \in interruptBefore THEN "interrupt" ELSE to

\* The node that ran, the channels as it found them, the repository of the
\* state object it was handed as it left it, and what it did.
Ran(node) == [node |-> node, workflowStep |-> workflowStep, repository |-> repository,
              input |-> repository, execution |-> NoExecution, threw |-> FALSE]

-----------------------------------------------------------------------------
\* Inputs

UrlZ == "https://x/y/z.git"
Readme == "README.md"

\* Histories a run of the graph is invoked with.
InputHistories == {<<>>, <<HumanMessage>>,
                   <<HumanMessage, AIMessage(<<>>), HumanMessage>>}

\* Repository metadata a run is invoked with (a fresh session, a resumed one).
InputRepositories ==
  {EmptyRepository,
   [url |-> Str(UrlZ), directory |-> Str("./z"), branch |-> Str("main"),
    filesModified |-> Arr(<<Str(Readme)>>)]}

\* Tool calls the model may request in one response.
ModelResponses ==
  {<<>>,
   <<Clone(Str(UrlZ), Undef, Undef)>>,
   <<WriteFile(Str(Readme))>>,
   <<ReadFile(Str(Readme)), WriteFile(Str("a.ts"))>>,
   <<DirTool("git_status")>>,
   <<DirTool("git_commit")>>,
   <<DirTool("git_push")>>,
   <<PushBranch(Str("main"))>>,
   <<DirTool("list_directory")>>,
   <<Clone(Str(UrlZ), Undef, Str("dev")), Checkout(Str("main"))>>}

\* Text a tool returns: every tool answers with a string, of success or of error.
ToolContents == {"ok", "error"}

-----------------------------------------------------------------------------
\* The compiled graph

Init ==
  /\ pc = Goto("__start__", Edge("__start__"))
  /\ messages \in InputHistories
  /\ workflowStep \in StageSet
  /\ repository \in InputRepositories
  /\ last = Ran("__start__")
  /\ turns = 0
  /\ inputLen = Len(messages)

\* callModel with the failure of the model caught and answered by an empty
\* assistant message.
CallModelSwallowsError ==
  /\ pc = "callModel"
  /\ turns < MaxTurns
  /\ UNCHANGED <<workflowStep, repository, inputLen>>
  /\ \/ /\ last' = [Ran("callModel") EXCEPT !.threw = TRUE]
        /\ messages' = Append(messages, AIMessage(<<>>))
        /\ turns' = turns + 1
        /\ pc' = Goto("callModel",
                      routeModelOutput(State(messages', workflowStep, repository)))
     \/ \E response \in ModelResponses :
          /\ last' = Ran("callModel")
          /\ messages' = Append(messages, AIMessage(response))
          /\ turns' = turns + 1
          /\ pc' = Goto("callModel",
                        routeModelOutput(State(messages', workflowStep, repository)))

\* Node callModel and its conditional edge routeModelOutput.  A model that
\* cannot be loaded or invoked throws out of the node.
CallModel ==
  /\ pc = "callModel"
  /\ turns < MaxTurns
  /\ UNCHANGED <<workflowStep, repository, inputLen>>
  /\ \/ /\ last' = [Ran("callModel") EXCEPT !.threw = TRUE]
        /\ pc' = "error"
        /\ UNCHANGED <<messages, turns>>
     \/ \E response \in ModelResponses :
          /\ last' = Ran("callModel")
          /\ messages' = Append(messages, AIMessage(response))
          /\ turns' = turns + 1
          /\ pc' = Goto("callModel",
                        routeModelOutput(State(messages', workflowStep, repository)))

\* Node tools (ToolNode): runs the tool calls of the last message and appends
\* one tool message per call, in request order.
Tools ==
  /\ pc = "tools"
  /\ LET toolCalls == messages[Len(messages)].tool_calls.items
         allRuns == UNION {ToolRuns(toolCalls[i]) : i \in 1..Len(toolCalls)}
     IN \E runs \in [1..Len(toolCalls) -> allRuns], schedule \in Schedules(toolCalls) :
          /\ \A i \in 1..Len(toolCalls) : runs[i] \in ToolRuns(toolCalls[i])
          /\ messages' = messages \o
               [i \in 1..Len(toolCalls) |-> ToolMessage(toolCalls[i].name, runs[i].content)]
          /\ last' = [Ran("tools") EXCEPT
                        !.execution = [runs |-> runs, schedule |-> schedule]]
  /\ pc' = Goto("tools", Edge("tools"))
  /\ UNCHANGED <<workflowStep, repository, turns, inputLen>>

\* processResults also returns the messages key: a note on the turn is
\* appended to the history.
ProcessResultsAppendsNote ==
  /\ pc = "processResults"
  /\ LET update == processToolResults(State(messages, workflowStep, repository))
     IN /\ workflowStep' = StepReducer(workflowStep, update.workflowStep)
        /\ repository' = RepositoryReducer(repository, update.repository)
  /\ messages' = Append(messages, AIMessage(<<>>))
  /\ pc' = Goto("processResults", Edge("processResults"))
  /\ last' = [Ran("processResults") EXCEPT
                !.input = updateRepositoryInfoInput(
                            State(messages, workflowStep, repository))]
  /\ UNCHANGED <<turns, inputLen>>

\* Node processResults.
ProcessResults ==
  /\ pc = "processResults"
  /\ LET update == processToolResults(State(messages, workflowStep, repository))
     IN /\ workflowStep' = StepReducer(workflowStep, update.workflowStep)
        /\ repository' = RepositoryReducer(repository, update.repository)
  /\ pc' = Goto("processResults", Edge("processResults"))
  /\ last' = [Ran("processResults") EXCEPT
                !.input = updateRepositoryInfoInput(
                            State(messages, workflowStep, repository))]
  /\ UNCHANGED <<messages, turns, inputLen>>

Next == CallModel \/ Tools \/ ProcessResults

Spec == Init /\ [][Next]_vars

-----------------------------------------------------------------------------
\* The Stage Controller on its own: processToolResults applied to states a
\* caller hands it, the result folded into the channels by the reducers.

UrlW == "https://x/y/w.git"

\* Tool calls of the turns handed to the controller, alone and in pairs.
ControllerCalls ==
  {Clone(Str(UrlZ), Undef, Undef),
   Clone(Str(UrlW), Undef, Undef),
   Clone(Str(UrlZ), Str("./w"), Str("dev")),
   Checkout(Str("main")),
   DirTool("git_status"), DirTool("git_commit"), DirTool("git_push"),
   DirTool("list_directory"),
   ReadFile(Str(Readme)),
   WriteFile(Str(Readme)), WriteFile(Str("a.ts"))}

AllTriggers ==
  <<Clone(Str(UrlZ), Undef, Undef), WriteFile(Str(Readme)), DirTool("git_status"),
    DirTool("git_commit"), DirTool("git_push")>>

\* A git_clone and a write_file whose payload is not JSON, a git_clone and a
\* write_file without payload.
BadClone ==
  ToolCall("git_clone", BadJsonArgs([NoFields EXCEPT !.repoUrl = Str(UrlW)]))
BadWrite ==
  ToolCall("write_file", BadJsonArgs([NoFields EXCEPT !.filePath = Str("b.ts")]))
NullClone == ToolCall("git_clone", NullArgs)
NullWrite == ToolCall("write_file", NullArgs)

\* A git_clone whose repoUrl is a number: args.repoUrl.split is not a function.
NumClone == Clone(Num, Undef, Str("dev"))

\* Payloads that are strings holding JSON: the text of an object, the text null.
JsonArgs(o) == [kind |-> "json", o |-> o]
JsonNullArgs == [kind |-> "jsonnull", o |-> NoFields]

\* Turns whose payloads are JSON strings.
JsonResponses ==
  {<<ToolCall("git_clone", JsonArgs([NoFields EXCEPT !.repoUrl = Str(UrlW)]))>>,
   <<ToolCall("write_file", JsonNullArgs)>>,
   <<ToolCall("git_clone", JsonNullArgs), WriteFile(Str(Readme))>>}

\* Turns with malformed payloads, alone and next to well-formed calls.
MalformedResponses ==
  {<<BadClone>>, <<NullClone>>, <<BadWrite>>, <<NullWrite>>,
   <<NumClone>>, <<NumClone, WriteFile(Str(Readme))>>,
   <<BadClone, WriteFile(Str(Readme))>>,
   <<Checkout(Str("main")), NullWrite, Clone(Str(UrlZ), Undef, Undef)>>,
   <<BadWrite, DirTool("git_status")>>}

\* Repository URLs for the directory derivation: a plain one, one whose name
\* holds ".git" before its suffix, one ending in "/", the empty string.
UrlMyRepo == "https://host/org/myrepo.git"
UrlPages == "https://github.com/u/u.github.io.git"
UrlSlash == "https://host/org/"
DerivationUrls == {UrlMyRepo, UrlPages, UrlSlash, ""}

\* A single git_clone of each URL without directory, and one with an empty one.
DerivationResponses ==
  {<<Clone(Str(u), Undef, Undef)>> : u \in DerivationUrls}
  \cup {<<Clone(Str(UrlMyRepo), Str(""), Undef)>>}

ControllerResponses ==
  {<<>>, AllTriggers}
  \cup {<<c>> : c \in ControllerCalls}
  \cup {<<c, d>> : c, d \in ControllerCalls}
  \cup MalformedResponses
  \cup JsonResponses
  \cup DerivationResponses

\* Histories handed to the controller: empty, ending in a user message, ending
\* in the assistant message of the turn, ending in a tool result.
ControllerHistories ==
  {<<>>, <<HumanMessage>>,
   <<AIMessage(<<WriteFile(Str(Readme))>>), ToolMessage("write_file", "ok")>>}
  \cup {<<HumanMessage, AIMessage(r)>> : r \in ControllerResponses}

InitController ==
  /\ pc = "processResults"
  /\ messages \in ControllerHistories
  /\ workflowStep \in StageSet
  /\ repository \in InputRepositories
  /\ last = Ran("__start__")
  /\ turns = 0
  /\ inputLen = 0

\* The caller hands the controller the state of the next turn.
NextTurn ==
  /\ pc = "callModel"
  /\ messages' \in ControllerHistories
  /\ pc' = "processResults"
  /\ last' = Ran("__start__")
  /\ UNCHANGED <<workflowStep, repository, turns, inputLen>>

NextController == NextTurn \/ ProcessResults

SpecController == InitController /\ [][NextController]_vars

-----------------------------------------------------------------------------
\* Vocabulary of the properties

\* Position of a stage in initialize < explore < modify < verify < commit < push.
Rank(stage) == CHOOSE i \in 1..Len(Stages) : Stages[i] = stage

\* The stage one step forward (push has none).
Succ(stage) == IF Rank(stage) < Len(Stages) THEN Stages[Rank(stage) + 1] ELSE stage

\* The documented triggering tools of each stage.
Trigger(stage) ==
  CASE stage = "initialize" -> {"git_clone"}
    [] stage = "explore"    -> {"write_file"}
    [] stage = "modify"     -> {"git_status", "read_file"}
    [] stage = "verify"     -> {"git_commit"}
    [] stage = "commit"     -> {"git_push"}
    [] OTHER                -> {}

\* The tool calls carried by the last message of a history (none when the
\* history is empty or its last message carries no tool-call list).
CallsOfLast(msgs) ==
  IF Len(msgs) = 0 THEN <<>> ELSE msgs[Len(msgs)].tool_calls.items

NamesOfLast(msgs) == {CallsOfLast(msgs)[i].name : i \in 1..Len(CallsOfLast(msgs))}

\* The tool calls of the latest assistant message of the history: the requests
\* of the current turn.
RequestedCalls ==
  LET ai == {i \in 1..Len(messages) : messages[i].type = "ai"}
  IN IF ai = {} THEN <<>>
     ELSE messages[CHOOSE i \in ai : \A j \in ai : j <= i].tool_calls.items

\* str without its suffix suf, str itself when it does not end in suf.
StripSuffix(str, suf) ==
  IF Len(str) >= Len(suf) /\ SubSeq(str, Len(str) - Len(suf) + 1, Len(str)) = suf
  THEN SubSeq(str, 1, Len(str) - Len(suf)) ELSE str

\* The text after the last "/" of str.
LastSegment(str) ==
  LET slashes == {i \in 1..Len(str) : SubSeq(str, i, i) = "/"}
  IN IF slashes = {} THEN str
     ELSE SubSeq(str, (CHOOSE i \in slashes : \A j \in slashes : j <= i) + 1, Len(str))

\* The turn is one git_clone with an object payload, a non-empty string
\* repoUrl and no directory.
CloneWithoutDirectory ==
  /\ Len(CallsOfLast(messages)) = 1
  /\ CallsOfLast(messages)[1].name = "git_clone"
  /\ CallsOfLast(messages)[1].args.kind = "object"
  /\ CallsOfLast(messages)[1].args.o.repoUrl.t = "string"
  /\ CallsOfLast(messages)[1].args.o.repoUrl.s # ""
  /\ CallsOfLast(messages)[1].args.o.directory = Undef

\* The turn is one git_clone that the schema of the tool accepts: repoUrl a
\* string, directory and branch absent or strings.
SchemaAcceptedClone ==
  /\ Len(CallsOfLast(messages)) = 1
  /\ CallsOfLast(messages)[1].name = "git_clone"
  /\ CallsOfLast(messages)[1].args.kind = "object"
  /\ CallsOfLast(messages)[1].args.o.repoUrl.t = "string"
  /\ CallsOfLast(messages)[1].args.o.directory.t \in {"undefined", "string"}
  /\ CallsOfLast(messages)[1].args.o.branch.t \in {"undefined", "string"}

\* processResults has just run.
Processed == last.node = "processResults"

Count(xs, v) == Cardinality({i \in 1..Len(xs) : xs[i] = v})

-----------------------------------------------------------------------------
\* C1: the stage never regresses: every step leaves workflowStep at the same
\* or a later position of the stage order, and push stays push.
StageNeverRegresses ==
  [][Rank(workflowStep') >= Rank(workflowStep)]_vars

\* A turn with tool calls was processed at stage push and the stage is still push.
StageNeverRegressesWitness ==
  /\ Processed
  /\ last.workflowStep = "push"
  /\ workflowStep = "push"
  /\ "git_clone" \in NamesOfLast(messages)

AtMostOneStepPerTurn ==
  Processed =>
    /\ Rank(workflowStep) - Rank(last.workflowStep) <= 1
    /\ Rank(last.workflowStep) - Rank(workflowStep) <= 1

\* All five triggering tools requested in one turn at initialize: the stage is explore.
AtMostOneStepPerTurnWitness ==
  /\ Processed
  /\ last.workflowStep = "initialize"
  /\ CallsOfLast(messages) = AllTriggers
  /\ workflowStep = "explore"

EndToEndClone ==
  (/\ Processed
   /\ last.workflowStep = "initialize"
   /\ last.repository = EmptyRepository
   /\ RequestedCalls = <<Clone(Str(UrlZ), Undef, Undef)>>)
  => /\ workflowStep = "explore"
     /\ repository = [EmptyRepository EXCEPT !.url = Str(UrlZ),
                                             !.directory = Str("./z")]

\* C6: end to end at explore, the model requests write_file of README.md:
\* after tools and processResults the stage is modify and filesModified is
\* [README.md].
EndToEndWrite ==
  (/\ Processed
   /\ last.workflowStep = "explore"
   /\ last.repository = EmptyRepository
   /\ RequestedCalls = <<WriteFile(Str(Readme))>>)
  => /\ workflowStep = "modify"
     /\ repository.filesModified = Arr(<<Str(Readme)>>)

\* C7: a model response without tool calls routes to the end: the step of
\* callModel that appends it leads to __end__ with workflowStep and repository
\* as they were, nothing runs after __end__, and routeModelOutput answers
\* __end__ for an empty history and for a last message without tool calls.
NoToolCallsEnds ==
  /\ [][(pc = "callModel" /\ pc' # "error" /\ CallsOfLast(messages') = <<>>)
        => (pc' = "__end__" /\ workflowStep' = workflowStep
                            /\ repository' = repository)]_vars
  /\ [][pc # "__end__"]_vars
  /\ [](\A h \in InputHistories \cup ControllerHistories :
          CallsOfLast(h) = <<>>
            => routeModelOutput(State(h, workflowStep, repository)) = "__end__")

\* A run that went through a turn with tools and then got an answer without
\* tool calls is at __end__.
NoToolCallsEndsWitness ==
  /\ pc = "__end__"
  /\ turns = 2
  /\ last.node = "callModel"
  /\ CallsOfLast(messages) = <<>>

\* C8: turn ordering: a response with tool calls leads to the tools node, the
\* tools node appends one result per call and leads to processResults, and
\* processResults leads back to callModel; processResults runs only right
\* after tools and the model only after processResults.
TurnOrdering ==
  [][/\ (pc = "callModel" /\ pc' # "error" /\ CallsOfLast(messages') # <<>>)
          => pc' = "tools"
     /\ pc = "tools"
          => /\ pc' = "processResults"
             /\ Len(messages') = Len(messages) + Len(CallsOfLast(messages))
             /\ SubSeq(messages', 1, Len(messages)) = messages
             /\ \A i \in 1..Len(CallsOfLast(messages)) :
                  /\ messages'[Len(messages) + i].type = "tool"
                  /\ messages'[Len(messages) + i].name = CallsOfLast(messages)[i].name
     /\ pc = "processResults" => pc' = "callModel"
     /\ pc' = "processResults" => pc = "tools"
     /\ pc' = "tools" => pc = "callModel"
     /\ pc' = "callModel" => pc = "processResults"]_vars

\* processResults has run after the tools of a turn and the model is next.
TurnOrderingWitness ==
  /\ Processed
  /\ pc = "callModel"
  /\ turns = 1
  /\ Len(messages) = inputLen + 3
  /\ messages[Len(messages)].type = "tool"

\* C9: the loop is at __end__ exactly when some response of the run carried
\* no tool calls; as long as every response requests a tool the run is not at
\* __end__, however many turns it has taken.
DoneIffNoToolCalls ==
  pc = "__end__" <=>
    \E i \in (inputLen + 1)..Len(messages) :
      messages[i].type = "ai" /\ messages[i].tool_calls.items = <<>>

\* Every response so far requested tools and the loop is still going.
DoneIffNoToolCallsWitness ==
  /\ turns = MaxTurns
  /\ pc = "callModel"
  /\ Processed

\* C10: filesModified never holds the same path twice.
FilesModifiedIsSet ==
  \A i, j \in 1..Len(repository.filesModified.items) :
    repository.filesModified.items[i] = repository.filesModified.items[j] => i = j

\* A turn wrote README.md twice when an earlier turn had already recorded it:
\* it is recorded once.
FilesModifiedIsSetWitness ==
  /\ Processed
  /\ Includes(last.repository.filesModified.items, Str(Readme))
  /\ CallsOfLast(messages) = <<WriteFile(Str(Readme)), WriteFile(Str(Readme))>>
  /\ Count(repository.filesModified.items, Str(Readme)) = 1

\* C11: a tool call whose arguments are a string that is not JSON, or null,
\* contributes nothing to the repository metadata, and the other calls of the
\* turn are folded as if it were not there.
UnparsableArgsSkipped ==
  Processed =>
    LET wellFormed == SelectSeq(CallsOfLast(messages), LAMBDA c : ~Unparsable(c))
    IN repository =
         RepositoryReducer(last.repository,
           updateRepositoryInfo(State(<<AIMessage(wellFormed)>>,
                                      last.workflowStep, last.repository)))

\* A turn with a git_clone whose payload is not JSON and a well-formed
\* write_file: the file is recorded, the url of the broken call is not.
UnparsableArgsSkippedWitness ==
  /\ Processed
  /\ CallsOfLast(messages) = <<BadClone, WriteFile(Str(Readme))>>
  /\ last.repository = EmptyRepository
  /\ repository = [EmptyRepository EXCEPT !.filesModified = Arr(<<Str(Readme)>>)]

DirectoryDerivation ==
  (Processed /\ CloneWithoutDirectory) =>
    repository.directory =
      Str("./" \o StripSuffix(LastSegment(CallsOfLast(messages)[1].args.o.repoUrl.s),
                              ".git"))

\* C14: the tool and the Stage Controller agree on the clone directory: for
\* every git_clone the schema accepts, repository.directory after the fold is
\* the directory the git_clone tool clones into.
ToolAndControllerAgree ==
  (Processed /\ SchemaAcceptedClone) =>
    repository.directory = gitCloneDirectory(CallsOfLast(messages)[1].args.o)

\* C15: a turn whose tool calls are all among git_status, git_commit,
\* git_push, read_file and list_directory leaves url, directory, branch and
\* filesModified unchanged.
OnlyThreeToolsMutate ==
  (/\ Processed
   /\ NamesOfLast(messages) \subseteq
        {"git_status", "git_commit", "git_push", "read_file", "list_directory"})
  => repository = last.repository

\* A turn of read_file and git_commit on a populated repository changed nothing.
OnlyThreeToolsMutateWitness ==
  /\ Processed
  /\ NamesOfLast(messages) = {"read_file", "git_commit"}
  /\ last.repository.url = Str(UrlZ)
  /\ last.repository.filesModified = Arr(<<Str("a.ts")>>)
  /\ repository = last.repository

\* The tools node has just run.
ToolsRan == last.node = "tools"

\* The message that answers call i of the turn the tools node has just run.
ResultOf(i) == messages[Len(messages) - Len(last.execution.runs) + i]

\* C16: every tool answers with a text, in success and in failure: every tool
\* message of the run carries the tool's own success or error text, a run in
\* which a shell command or filesystem call failed carries the error text, and
\* the tools node hands over to processResults.
ToolsReturnText ==
  /\ \A i \in (inputLen + 1)..Len(messages) :
       messages[i].type = "tool" => messages[i].content \in ToolContents
  /\ ToolsRan =>
       /\ pc = "processResults"
       /\ \A i \in 1..Len(last.execution.runs) :
            /\ ResultOf(i).type = "tool"
            /\ ResultOf(i).name = last.execution.runs[i].name
            /\ ResultOf(i).content = "error" <=> last.execution.runs[i].failed

\* git_push without branch: resolving the branch from HEAD failed and the tool
\* answered with its error text.
ToolsReturnTextWitness ==
  /\ ToolsRan
  /\ Len(last.execution.runs) = 1
  /\ last.execution.runs[1].name = "git_push"
  /\ last.execution.runs[1].ran = <<"git rev-parse">>
  /\ last.execution.runs[1].failed
  /\ ResultOf(1).content = "error"

\* The tool messages that answer the latest assistant message.
TurnResults ==
  LET ai == {i \in 1..Len(messages) : messages[i].type = "ai"}
      from == IF ai = {} THEN Len(messages) ELSE CHOOSE i \in ai : \A j \in ai : j <= i
  IN {messages[i] : i \in (from + 1)..Len(messages)}

\* C17: the stage follows the requested tool calls, not their outcome: a turn
\* whose triggering tool call failed still advances the stage one step.
FailingTriggerStillAdvances ==
  (/\ Processed
   /\ \E m \in TurnResults :
        /\ m.type = "tool"
        /\ m.content = "error"
        /\ m.name \in Trigger(last.workflowStep))
  => workflowStep = Succ(last.workflowStep)

\* Position of an event of call i in the schedule of the tools node.
At(event, i) ==
  CHOOSE k \in 1..Len(last.execution.schedule) :
    last.execution.schedule[k] = [event |-> event, call |-> i]

\* C18: no two tool calls of a turn execute concurrently: each call of the
\* turn has finished before the next one starts.
ToolsRunOneAtATime ==
  ToolsRan =>
    \A i, j \in 1..Len(last.execution.runs) :
      i < j => At("end", i) < At("start", j)

\* C19: a model invocation failure is fatal: when loading or calling the model
\* throws in callModel the run ends in error, the history, the stage and the
\* repository are those before the call, and no step follows the error (no
\* tool runs, nothing is retried).
ModelFailureIsFatal ==
  [][/\ pc # "error"
     /\ last'.threw =>
          /\ pc' = "error"
          /\ UNCHANGED <<messages, workflowStep, repository>>]_vars

ModelFailureIsFatalWitness ==
  /\ pc = "error"
  /\ last.threw
  /\ turns > 0
  /\ Len(messages) > inputLen

\* C20: human in the loop: between a model response that requests tool calls
\* and the execution of those tools the run waits for the user, so no step
\* leads from the model call straight to the tools node.
HumanInTheLoop ==
  [][pc = "callModel" => pc' # "tools"]_vars

\* C21: workflow progression as documented: after a turn in which files are
\* written (a write_file call is requested while the workflow explores or
\* modifies) the workflow step is verify.
WritingMovesToVerify ==
  (/\ Processed
   /\ last.workflowStep \in {"explore", "modify"}
   /\ "write_file" \in NamesOfLast(messages))
  => workflowStep = "verify"

\* C22: when processResults runs, the last message of the history, which the
\* Stage Controller inspects, is the assistant message of the turn: its tool
\* calls are the calls the tools node has just executed.
ControllerSeesTurnCalls ==
  pc = "processResults" =>
    /\ Len(messages) > 0
    /\ isAIMessage(messages[Len(messages)])
    /\ CallsOfLast(messages) = RequestedCalls

\* C23: the Stage Controller functions are pure: they return an update and
\* leave the state they are given as it was; in particular the filesModified
\* list of the input repository is the same after a write_file is processed.
ControllerIsPure ==
  Processed => last.input = last.repository

\* C24: only processResults mutates the workflow state: the callModel step and
\* the tools step leave workflowStep and repository unchanged, processResults
\* runs once per turn that has tool calls (right after the tools node, and
\* the tools node is followed by nothing else), and processResults leaves the
\* history unchanged.
OnlyProcessResultsMutates ==
  [][/\ last'.node \in {"callModel", "tools"} => UNCHANGED <<workflowStep, repository>>
     /\ last'.node = "tools" => pc' = "processResults"
     /\ last'.node = "processResults" =>
          /\ last.node = "tools"
          /\ pc' = "callModel"
          /\ UNCHANGED messages]_vars

OnlyProcessResultsMutatesWitness ==
  /\ Processed
  /\ pc = "callModel"
  /\ turns > 0
  /\ Len(messages) > inputLen + 1

\* The turn handed to the controller is the two calls first and second, both
\* with an object payload.
TurnOfTwo(first, second) ==
  /\ Len(CallsOfLast(messages)) = 2
  /\ CallsOfLast(messages)[1].name = first
  /\ CallsOfLast(messages)[2].name = second
  /\ \A i \in 1..2 : CallsOfLast(messages)[i].args.kind = "object"

FirstArgs == CallsOfLast(messages)[1].args.o
SecondArgs == CallsOfLast(messages)[2].args.o

\* C25: the metadata fold applies the calls of a turn in request order and
\* later calls override earlier ones: after git_clone(branch b1) then
\* git_checkout(target b2) the branch is b2, after git_checkout(target b2)
\* then git_clone(branch b1) it is b1, and after two git_clone calls url and
\* directory are those of the second.
FoldInRequestOrder ==
  Processed =>
    /\ (/\ TurnOfTwo("git_clone", "git_checkout")
        /\ Truthy(FirstArgs.repoUrl) /\ Truthy(FirstArgs.branch)
        /\ Truthy(SecondArgs.target))
       => repository.branch = SecondArgs.target
    /\ (/\ TurnOfTwo("git_checkout", "git_clone")
        /\ Truthy(FirstArgs.target)
        /\ Truthy(SecondArgs.repoUrl) /\ Truthy(SecondArgs.branch))
       => repository.branch = SecondArgs.branch
    /\ (/\ TurnOfTwo("git_clone", "git_clone")
        /\ Truthy(FirstArgs.repoUrl) /\ Truthy(SecondArgs.repoUrl))
       => /\ repository.url = SecondArgs.repoUrl
          /\ repository.directory =
               IF Truthy(SecondArgs.directory) THEN SecondArgs.directory
               ELSE Str(DeriveDirectory(SecondArgs.repoUrl.s))

FoldInRequestOrderWitness ==
  /\ Processed
  /\ TurnOfTwo("git_clone", "git_checkout")
  /\ Truthy(FirstArgs.repoUrl) /\ Truthy(FirstArgs.branch)
  /\ Truthy(SecondArgs.target)
  /\ FirstArgs.branch # SecondArgs.target
  /\ repository.branch = SecondArgs.target

\* The paths recorded in a repository's filesModified.
FilesOf(repo) == {repo.filesModified.items[i] : i \in 1..Len(repo.filesModified.items)}

\* The turn handed to the controller is one git_clone, with an object payload,
\* of a URL other than the recorded one and without a branch.
CloneOfOtherUrl ==
  /\ pc = "processResults"
  /\ Len(CallsOfLast(messages)) = 1
  /\ CallsOfLast(messages)[1].name = "git_clone"
  /\ CallsOfLast(messages)[1].args.kind = "object"
  /\ Truthy(FirstArgs.repoUrl)
  /\ FirstArgs.repoUrl # repository.url
  /\ FirstArgs.branch = Undef

\* C26: repository metadata only accumulates: over every sequence of turns
\* filesModified after a turn includes filesModified before it, and url,
\* directory and branch once set are never unset; a git_clone of another URL
\* without a branch keeps the recorded branch and the recorded filesModified.
MetadataAccumulates ==
  [][/\ FilesOf(repository) \subseteq FilesOf(repository')
     /\ repository.filesModified.defined => repository'.filesModified.defined
     /\ \A f \in {"url", "directory", "branch"} :
          repository[f] # Undef => repository'[f] # Undef
     /\ CloneOfOtherUrl =>
          /\ repository'.url = FirstArgs.repoUrl
          /\ repository'.branch = repository.branch
          /\ repository'.filesModified = repository.filesModified]_vars

MetadataAccumulatesWitness ==
  /\ Processed
  /\ Len(CallsOfLast(messages)) = 1
  /\ CallsOfLast(messages)[1].name = "git_clone"
  /\ Truthy(last.repository.url)
  /\ repository.url # last.repository.url
  /\ Truthy(repository.branch)
  /\ repository.branch = last.repository.branch
  /\ FilesOf(repository) # {}
  /\ repository.filesModified = last.repository.filesModified

\* Call i of the turn raises an error part-way through its case: a git_clone
\* whose repoUrl is truthy and not a string, without a directory.
ThrowsPartWay(i) ==
  /\ CallsOfLast(messages)[i].name = "git_clone"
  /\ CallsOfLast(messages)[i].args.kind = "object"
  /\ Truthy(CallsOfLast(messages)[i].args.o.repoUrl)
  /\ CallsOfLast(messages)[i].args.o.repoUrl.t # "string"
  /\ ~Truthy(CallsOfLast(messages)[i].args.o.directory)

\* C27: a tool call's contribution to the repository metadata is all or
\* nothing: when a call raises an error part-way through its case, none of its
\* fields is in the repository after the turn, also when another call of the
\* turn succeeds.
CallIsAllOrNothing ==
  Processed =>
    \A i \in 1..Len(CallsOfLast(messages)) :
      (ThrowsPartWay(i)
       /\ last.repository.url # CallsOfLast(messages)[i].args.o.repoUrl)
      => repository.url # CallsOfLast(messages)[i].args.o.repoUrl

\* The state the controller is handed.
Handed == State(messages, workflowStep, repository)

\* C28: the two graph variants are equivalent: for every state their
\* routeModelOutput, determineNextWorkflowStep and updateRepositoryInfo
\* return the same route, the same stage update and the same repository
\* update, also for an empty history, a last message that is not an assistant
\* message, and string, null or unparsable tool-call arguments.
VariantsAgree ==
  /\ gitOnlyRouteModelOutput(Handed) = routeModelOutput(Handed)
  /\ gitOnlyDetermineNextWorkflowStep(Handed) = determineNextWorkflowStep(Handed)
  /\ gitOnlyUpdateRepositoryInfo(Handed) = updateRepositoryInfo(Handed)

VariantsAgreeWitness ==
  /\ pc = "processResults"
  /\ \E i \in 1..Len(CallsOfLast(messages)) : Unparsable(CallsOfLast(messages)[i])
  /\ gitOnlyRouteModelOutput(Handed) = "tools"
  /\ gitOnlyDetermineNextWorkflowStep(Handed).has
  /\ gitOnlyUpdateRepositoryInfo(Handed).has

\* Position of a step among the steps a run issued (0: not issued).
StepAt(run, step) ==
  IF \E k \in 1..Len(run.ran) : run.ran[k] = step
  THEN CHOOSE k \in 1..Len(run.ran) : run.ran[k] = step
  ELSE 0

\* In run, step second was issued only after step first had succeeded.
OnlyAfter(run, first, second) ==
  StepAt(run, second) # 0 =>
    /\ StepAt(run, first) # 0
    /\ StepAt(run, first) < StepAt(run, second)
    /\ run.failedAt # StepAt(run, first)

\* C29: multi-step tools are fail-fast: in git_clone the checkout runs only if
\* a branch was given and only after the clone succeeded; in git_commit the
\* staging (addAll true or absent) precedes the commit and a staging failure
\* prevents the commit; in git_push the branch is resolved from HEAD only when
\* absent and a failed resolution prevents the push; the first failing step
\* yields the tool's error text and no later step runs.
ToolsFailFast ==
  ToolsRan =>
    \A i \in 1..Len(last.execution.runs) :
      LET run == last.execution.runs[i]
          args == RequestedCalls[i].args.o
      IN /\ run.failed =>
              /\ Len(run.ran) = run.failedAt
              /\ ResultOf(i).content = "error"
         /\ run.name = "git_clone" =>
              /\ StepAt(run, "git checkout") # 0 => Truthy(args.branch)
              /\ OnlyAfter(run, "git clone", "git checkout")
         /\ (run.name = "git_commit" /\ (args.addAll = Undef \/ Truthy(args.addAll))) =>
              OnlyAfter(run, "git add", "git commit")
         /\ run.name = "git_push" =>
              /\ StepAt(run, "git rev-parse") # 0 <=> ~Truthy(args.branch)
              /\ ~Truthy(args.branch) => OnlyAfter(run, "git rev-parse", "git push")

ToolsFailFastWitness ==
  /\ ToolsRan
  /\ \E i \in 1..Len(last.execution.runs) :
       /\ last.execution.runs[i].name = "git_commit"
       /\ last.execution.runs[i].failed
       /\ last.execution.runs[i].ran = <<"git add">>
       /\ ResultOf(i).content = "error"

====
